---- MODULE Spec2Model ----
(***************************************************************************)
(* EEFILE: a key-slot record store over a byte-addressable EEPROM.         *)
(* Model of src/src/eefile.h and src/src/eefile.cpp.                       *)
(*                                                                         *)
(* The descriptor table (files, fileCount), the store flag (is_enabled)    *)
(* and the device bytes are the state.  Every public method is one action; *)
(* write is taken one EEPROM byte write at a time so that the device       *)
(* states a power loss can leave behind are states of the model.           *)
(***************************************************************************)
EXTENDS Integers, Sequences, FiniteSets, TLC

(* ---------------- program constants (eefile.h) ---------------- *)
EEFILE_MAX_FILES == 10
EEFILE_SECTOR_SIZE == 256
EEFILE_NUM_SECTORS == 2
EEFILE_TOTAL_SIZE == EEFILE_SECTOR_SIZE * EEFILE_NUM_SECTORS

IIC_START == 0
KAL_MAN == 1
END == 2
\* the example sketch adds a third identifier before END
USER_SETTINGS == 2
\* the byte the example sketch stores as the I2C address (0x42)
I2C_ADDR == 66

\* uint16_t arithmetic is modulo 2^16
U16 == 65536

MARKER_VALID == 1
MARKER_INVALID == 0
PAD == 255

(* ---------------- bounds of the model ---------------- *)
\* longest payload / read length a caller passes in the store model
MaxLen == 2
\* number of power losses followed by a restart
MaxBoots == 1

\* identifiers the caller uses in the store model
Types == {IIC_START, KAL_MAN}
\* maxSize arguments in the store model
RegSizes == {1, 2}
\* maxSize arguments in the power-loss model
CrashSizes == {2}
\* payloads a caller writes: different lengths, and different bytes at the
\* same offset, so that stale and fresh bytes differ
AllPayloads == {<<>>, <<66>>, <<23, 66>>, <<66, 23, 66>>, <<23, 23, 66, 66>>}
\* content of a caller's buffer before read() fills it
BUF_INIT == 170

\* identifiers and maxSize arguments of the example sketch
ExampleTypes == {IIC_START, KAL_MAN, USER_SETTINGS}
ExampleSizes == {1, 4, 16}

\* maxSize arguments of the store model with one oversized record: the
\* first identifier may be registered with the largest 16-bit size
OverSizes(t) == IF t = IIC_START THEN {1, 65535} ELSE RegSizes

\* maxSize arguments of the store model with an oversized record at the
\* end of the device: a first record that fills the device up to its last
\* three bytes, a second one of size 1 or of the largest 16-bit size
EndSizes(t) == IF t = IIC_START THEN {508} ELSE {1, 65535}

\* identifiers and sizes of the registration model: enough identifiers to
\* fill the table, sizes around the region size and around 2^16
WideTypes == 0..EEFILE_MAX_FILES
WideSizes == {1, 511, 65534, 65535}
\* width of int on the build: 16 (AVR) or 32 (STM32, ESP32)
IntWidths == {16, 32}

Addr == 0..(EEFILE_TOTAL_SIZE - 1)

Payloads == {d \in AllPayloads : Len(d) <= MaxLen}

VARIABLES
    files,       \* FileMetadata files[EEFILE_MAX_FILES]
    fileCount,   \* uint8_t fileCount
    is_enabled,  \* bool is_enabled
    device,      \* the EEPROM bytes
    intBits,     \* width of int on this build
    pc,          \* "idle", or "write" while write() is between byte writes
    wr,          \* the write in progress: index, payload, next offset
    sinceErase,  \* history: per identifier, what followed its last erase
    saved,       \* the descriptor table lost by the last power loss
    boots        \* number of power losses so far

vars == <<files, fileCount, is_enabled, device, intBits, pc, wr, sinceErase, saved, boots>>

(* ---------------- FileMetadata ---------------- *)
ZeroMeta ==
    [type |-> 0, maxSize |-> 0, startAddr |-> 0, endAddr |-> 0,
     dataLen |-> 0, enabled |-> FALSE, modified |-> FALSE]

ZeroTable == [i \in 0..(EEFILE_MAX_FILES - 1) |-> ZeroMeta]

\* wr.fence records whether the marker was 0x00 when the write began
NoWrite == [idx |-> -1, data |-> <<>>, i |-> 0, fence |-> FALSE]
\* what a restart loses: each record's layout and recorded length
Lost(m) == [type |-> m.type, maxSize |-> m.maxSize, startAddr |-> m.startAddr,
            dataLen |-> m.dataLen]
NoSaved == [files |-> [i \in 0..(EEFILE_MAX_FILES - 1) |-> Lost(ZeroMeta)],
            fileCount |-> 0, pc |-> "idle"]

\* sinceErase[t]: "none" (no erase since the last successful write),
\* "erased" (erase succeeded, nothing re-validated the record since),
\* "revalidated" (erase succeeded, then setFileValid(t, true), no write)
NoErase == [t \in WideTypes |-> "none"]

(* ---------------- the device primitive ---------------- *)
\* ::EEPROM.read(address)
EEPROM_read(dev, a) == IF a \in DOMAIN dev THEN dev[a] ELSE PAD

\* ::EEPROM.write(address, value)
EEPROM_write(dev, a, v) == IF a \in DOMAIN dev THEN [dev EXCEPT ![a] = v] ELSE dev

(* ---------------- private helpers ---------------- *)
Min(S) == CHOOSE x \in S : \A y \in S : x <= y

\* mutant: the search loop starts at index 1
findFileIndexIn_skipFirst(tbl, cnt, type) ==
    LET S == {i \in 1..(cnt - 1) : tbl[i].type = type}
    IN IF S = {} THEN -1 ELSE Min(S)

findFileIndexIn(tbl, cnt, type) ==
    LET S == {i \in 0..(cnt - 1) : tbl[i].type = type}
    IN IF S = {} THEN -1 ELSE Min(S)

findFileIndex(type) == findFileIndexIn(files, fileCount, type)

calculateNextAddr ==
    IF fileCount = 0 THEN 0
    ELSE (files[fileCount - 1].endAddr + 1) % U16

\* value of an int expression built from uint16_t operands on this build:
\* unsigned 16-bit where int is 16 bits wide, exact where it is 32
IntExpr(x) == IF intBits = 16 THEN x % U16 ELSE x

(* ---------------- construction ---------------- *)
Init ==
    /\ files = ZeroTable
    /\ fileCount = 0
    /\ is_enabled = FALSE
    /\ device = [a \in Addr |-> PAD]
    /\ intBits = 32
    /\ pc = "idle"
    /\ wr = NoWrite
    /\ sinceErase = NoErase
    /\ saved = NoSaved
    /\ boots = 0

(* ---------------- begin / enable / disable ---------------- *)
begin ==
    /\ pc = "idle"
    /\ is_enabled' = TRUE
    /\ UNCHANGED <<files, fileCount, device, intBits, pc, wr, sinceErase, saved, boots>>

enable ==
    /\ pc = "idle"
    /\ is_enabled' = TRUE
    /\ UNCHANGED <<files, fileCount, device, intBits, pc, wr, sinceErase, saved, boots>>

disable ==
    /\ pc = "idle"
    /\ is_enabled' = FALSE
    /\ UNCHANGED <<files, fileCount, device, intBits, pc, wr, sinceErase, saved, boots>>

(* ---------------- registerAuto ---------------- *)
registerOk(type, maxSize) ==
    LET nextAddr == calculateNextAddr
        actualSize == (maxSize + 1) % U16
    IN /\ ~(fileCount >= EEFILE_MAX_FILES)
       /\ ~(findFileIndex(type) # -1)
       /\ ~(IntExpr(nextAddr + actualSize) > EEFILE_TOTAL_SIZE)

\* mutant: the region has no marker byte, endAddr = nextAddr + maxSize - 1
registerAuto_noMarkerByte(type, maxSize) ==
    LET nextAddr == calculateNextAddr
    IN /\ pc = "idle"
       /\ IF registerOk(type, maxSize)
          THEN /\ files' = [files EXCEPT ![fileCount] =
                               [type |-> type,
                                maxSize |-> maxSize,
                                startAddr |-> nextAddr,
                                endAddr |-> (nextAddr + maxSize - 1) % U16,
                                dataLen |-> 0,
                                enabled |-> TRUE,
                                modified |-> FALSE]]
               /\ fileCount' = fileCount + 1
          ELSE UNCHANGED <<files, fileCount>>
       /\ UNCHANGED <<is_enabled, device, intBits, pc, wr, sinceErase, saved, boots>>

registerAuto(type, maxSize) ==
    LET nextAddr == calculateNextAddr
        actualSize == (maxSize + 1) % U16
    IN /\ pc = "idle"
       /\ IF registerOk(type, maxSize)
          THEN /\ files' = [files EXCEPT ![fileCount] =
                               [type |-> type,
                                maxSize |-> maxSize,
                                startAddr |-> nextAddr,
                                endAddr |-> (nextAddr + actualSize - 1) % U16,
                                dataLen |-> 0,
                                enabled |-> TRUE,
                                modified |-> FALSE]]
               /\ fileCount' = fileCount + 1
          ELSE UNCHANGED <<files, fileCount>>
       /\ UNCHANGED <<is_enabled, device, intBits, pc, wr, sinceErase, saved, boots>>

(* ---------------- write ---------------- *)
\* mutant: the length of the payload is not checked
writeError_noLengthCheck(type, length) ==
    LET idx == findFileIndex(type)
    IN IF ~is_enabled THEN "StoreDisabled"
       ELSE IF idx = -1 THEN "UnknownIdentifier"
       ELSE IF ~files[idx].enabled THEN "RecordDisabled"
       ELSE ""

\* the checks of write(), in the code's order; "" when all pass
writeError(type, length) ==
    LET idx == findFileIndex(type)
    IN IF ~is_enabled THEN "StoreDisabled"
       ELSE IF idx = -1 THEN "UnknownIdentifier"
       ELSE IF ~files[idx].enabled THEN "RecordDisabled"
       ELSE IF length > files[idx].maxSize THEN "PayloadTooLarge"
       ELSE ""

\* mutant: the write also shrinks the record to the payload written
writeMeta_setsMaxSize(tbl, idx, length) ==
    [tbl EXCEPT ![idx].dataLen = length, ![idx].modified = TRUE,
                ![idx].maxSize = length]

\* files[idx].dataLen = length; files[idx].modified = true
writeMeta(tbl, idx, length) ==
    [tbl EXCEPT ![idx].dataLen = length, ![idx].modified = TRUE]

\* mutant: the rest of the payload area is filled with 0x00
writeByteAt_zeroFill(data, i) == IF i < Len(data) THEN data[i + 1] ELSE MARKER_INVALID

\* byte number i of the record's payload area: data[i], then 0xFF padding
writeByteAt(data, i) == IF i < Len(data) THEN data[i + 1] ELSE PAD

\* mutant: the write starts with the payload and leaves the marker as it is
writeBegin_noMarker(type, data) ==
    LET idx == findFileIndex(type)
        err == writeError(type, Len(data))
    IN /\ pc = "idle"
       /\ IF err # ""
          THEN UNCHANGED <<files, device, pc, wr, sinceErase>>
          ELSE /\ device' = device
               /\ sinceErase' = [sinceErase EXCEPT ![type] = "none"]
               /\ IF files[idx].maxSize = 0
                  THEN /\ files' = writeMeta(files, idx, Len(data))
                       /\ UNCHANGED <<pc, wr>>
                  ELSE /\ pc' = "write"
                       /\ wr' = [idx |-> idx, data |-> data, i |-> 0,
                                 fence |-> (EEPROM_read(device, files[idx].startAddr)
                                              = MARKER_INVALID)]
                       /\ UNCHANGED files
       /\ UNCHANGED <<fileCount, is_enabled, intBits, saved, boots>>

\* write() up to and including its first EEPROM write, the marker.  A
\* record of maxSize 0 has no further byte and the call returns at once.
writeBegin(type, data) ==
    LET idx == findFileIndex(type)
        err == writeError(type, Len(data))
    IN /\ pc = "idle"
       /\ IF err # ""
          THEN UNCHANGED <<files, device, pc, wr, sinceErase>>
          ELSE /\ device' = EEPROM_write(device, files[idx].startAddr, MARKER_VALID)
               /\ sinceErase' = [sinceErase EXCEPT ![type] = "none"]
               /\ IF files[idx].maxSize = 0
                  THEN /\ files' = writeMeta(files, idx, Len(data))
                       /\ UNCHANGED <<pc, wr>>
                  ELSE /\ pc' = "write"
                       /\ wr' = [idx |-> idx, data |-> data, i |-> 0,
                                 fence |-> (EEPROM_read(device, files[idx].startAddr)
                                              = MARKER_INVALID)]
                       /\ UNCHANGED files
       /\ UNCHANGED <<fileCount, is_enabled, intBits, saved, boots>>

\* the next EEPROM write of the two loops of write(); after the last one
\* the metadata is updated and the call returns.  Where int is 32 bits wide
\* the addresses of the loops only grow: once the next one is past the
\* device every remaining EEPROM write is dropped, and those iterations are
\* taken together with the return.
writeStep ==
    LET idx == wr.idx
        dataAddr == (files[idx].startAddr + 1) % U16
        last == \/ wr.i + 1 >= files[idx].maxSize
                \/ intBits = 32 /\ dataAddr + wr.i + 1 >= EEFILE_TOTAL_SIZE
    IN /\ pc = "write"
       /\ device' = EEPROM_write(device, IntExpr(dataAddr + wr.i), writeByteAt(wr.data, wr.i))
       /\ IF last
          THEN /\ files' = writeMeta(files, idx, Len(wr.data))
               /\ pc' = "idle"
               /\ wr' = NoWrite
          ELSE /\ wr' = [wr EXCEPT !.i = wr.i + 1]
               /\ UNCHANGED <<files, pc>>
       /\ UNCHANGED <<fileCount, is_enabled, intBits, sinceErase, saved, boots>>

(* ---------------- read ---------------- *)
readError(type) ==
    LET idx == findFileIndex(type)
    IN IF ~is_enabled THEN "StoreDisabled"
       ELSE IF idx = -1 THEN "UnknownIdentifier"
       ELSE IF ~files[idx].enabled THEN "RecordDisabled"
       ELSE IF EEPROM_read(device, files[idx].startAddr) # MARKER_VALID THEN "InvalidMarker"
       ELSE ""

\* mutant: read copies as many bytes as the caller expects
readLen_expected(type, length) == length

\* number of bytes read() copies
readLen(type, length) ==
    LET idx == findFileIndex(type)
    IN IF length < files[idx].dataLen THEN length ELSE files[idx].dataLen

\* mutant: the copy starts at the marker's address instead of address + 1
readBuffer_fromMarker(type, length) ==
    LET idx == findFileIndex(type)
    IN [i \in 1..length |->
          IF i <= readLen(type, length)
          THEN EEPROM_read(device, IntExpr(files[idx].startAddr + (i - 1)))
          ELSE BUF_INIT]

\* the caller's buffer of `length` bytes after a successful read()
readBuffer(type, length) ==
    LET idx == findFileIndex(type)
        dataAddr == (files[idx].startAddr + 1) % U16
    IN [i \in 1..length |->
          IF i <= readLen(type, length)
          THEN EEPROM_read(device, IntExpr(dataAddr + (i - 1)))
          ELSE BUF_INIT]

\* read() writes only the caller's buffer: its result is readError and
\* readBuffer, and it leaves the store and the device as they are
read(type, length) ==
    /\ pc = "idle"
    /\ UNCHANGED vars

(* ---------------- erase ---------------- *)
eraseError(type) ==
    LET idx == findFileIndex(type)
    IN IF ~is_enabled THEN "StoreDisabled"
       ELSE IF idx = -1 THEN "UnknownIdentifier"
       ELSE ""

\* mutant: erase also resets the first payload byte to 0xFF
erase_wipesPayload(type) ==
    LET idx == findFileIndex(type)
        err == eraseError(type)
    IN /\ pc = "idle"
       /\ IF err # ""
          THEN UNCHANGED <<files, device, sinceErase>>
          ELSE /\ device' = EEPROM_write(
                                EEPROM_write(device, files[idx].startAddr, MARKER_INVALID),
                                files[idx].startAddr + 1, PAD)
               /\ files' = [files EXCEPT ![idx].dataLen = 0, ![idx].modified = FALSE]
               /\ sinceErase' = [sinceErase EXCEPT ![type] = "erased"]
       /\ UNCHANGED <<fileCount, is_enabled, intBits, pc, wr, saved, boots>>

\* mutant: erase resets the metadata and leaves the marker as it is
erase_keepsMarker(type) ==
    LET idx == findFileIndex(type)
        err == eraseError(type)
    IN /\ pc = "idle"
       /\ IF err # ""
          THEN UNCHANGED <<files, device, sinceErase>>
          ELSE /\ device' = device
               /\ files' = [files EXCEPT ![idx].dataLen = 0, ![idx].modified = FALSE]
               /\ sinceErase' = [sinceErase EXCEPT ![type] = "erased"]
       /\ UNCHANGED <<fileCount, is_enabled, intBits, pc, wr, saved, boots>>

\* mutant: erase writes the marker and leaves the recorded length
erase_keepsLen(type) ==
    LET idx == findFileIndex(type)
        err == eraseError(type)
    IN /\ pc = "idle"
       /\ IF err # ""
          THEN UNCHANGED <<files, device, sinceErase>>
          ELSE /\ device' = EEPROM_write(device, files[idx].startAddr, MARKER_INVALID)
               /\ files' = [files EXCEPT ![idx].modified = FALSE]
               /\ sinceErase' = [sinceErase EXCEPT ![type] = "erased"]
       /\ UNCHANGED <<fileCount, is_enabled, intBits, pc, wr, saved, boots>>

erase(type) ==
    LET idx == findFileIndex(type)
        err == eraseError(type)
    IN /\ pc = "idle"
       /\ IF err # ""
          THEN UNCHANGED <<files, device, sinceErase>>
          ELSE /\ device' = EEPROM_write(device, files[idx].startAddr, MARKER_INVALID)
               /\ files' = [files EXCEPT ![idx].dataLen = 0, ![idx].modified = FALSE]
               /\ sinceErase' = [sinceErase EXCEPT ![type] = "erased"]
       /\ UNCHANGED <<fileCount, is_enabled, intBits, pc, wr, saved, boots>>

(* ---------------- per-record flags ---------------- *)
\* mutant: setFileEnabled also resets the modified flag
setFileEnabled_clearsModified(type, enabled) ==
    LET idx == findFileIndex(type)
    IN /\ pc = "idle"
       /\ files' = IF idx # -1
                   THEN [files EXCEPT ![idx].enabled = enabled, ![idx].modified = FALSE]
                   ELSE files
       /\ UNCHANGED <<fileCount, is_enabled, device, intBits, pc, wr, sinceErase, saved, boots>>

setFileEnabled(type, enabled) ==
    LET idx == findFileIndex(type)
    IN /\ pc = "idle"
       /\ files' = IF idx # -1 THEN [files EXCEPT ![idx].enabled = enabled] ELSE files
       /\ UNCHANGED <<fileCount, is_enabled, device, intBits, pc, wr, sinceErase, saved, boots>>

clearModifiedFlag(type) ==
    LET idx == findFileIndex(type)
    IN /\ pc = "idle"
       /\ files' = IF idx # -1 THEN [files EXCEPT ![idx].modified = FALSE] ELSE files
       /\ UNCHANGED <<fileCount, is_enabled, device, intBits, pc, wr, sinceErase, saved, boots>>

isFileEnabled(type) ==
    LET idx == findFileIndex(type)
    IN IF idx # -1 THEN files[idx].enabled ELSE FALSE

getFileDataLen(type) ==
    LET idx == findFileIndex(type)
    IN IF idx # -1 THEN files[idx].dataLen ELSE 0

isFileModified(type) ==
    LET idx == findFileIndex(type)
    IN IF idx # -1 THEN files[idx].modified ELSE FALSE

getFileAddr(type) ==
    LET idx == findFileIndex(type)
    IN IF idx # -1 THEN files[idx].startAddr ELSE 0

(* ---------------- validity marker ---------------- *)
\* mutant: validity is taken from the descriptor in memory, not the device
isFileValid_cached(type) ==
    LET idx == findFileIndex(type)
    IN IF idx = -1 THEN FALSE
       ELSE files[idx].dataLen > 0

isFileValid(type) ==
    LET idx == findFileIndex(type)
    IN IF idx = -1 THEN FALSE
       ELSE EEPROM_read(device, files[idx].startAddr) = MARKER_VALID

\* mutant: the marker written does not depend on `valid`
setFileValid_alwaysValid(type, valid) ==
    LET idx == findFileIndex(type)
    IN /\ pc = "idle"
       /\ device' = IF idx = -1 THEN device
                    ELSE EEPROM_write(device, files[idx].startAddr, MARKER_VALID)
       /\ sinceErase' = IF idx # -1 /\ valid /\ sinceErase[type] = "erased"
                        THEN [sinceErase EXCEPT ![type] = "revalidated"]
                        ELSE sinceErase
       /\ UNCHANGED <<files, fileCount, is_enabled, intBits, pc, wr, saved, boots>>

setFileValid(type, valid) ==
    LET idx == findFileIndex(type)
    IN /\ pc = "idle"
       /\ device' = IF idx = -1 THEN device
                    ELSE EEPROM_write(device, files[idx].startAddr,
                                      IF valid THEN MARKER_VALID ELSE MARKER_INVALID)
       /\ sinceErase' = IF idx # -1 /\ valid /\ sinceErase[type] = "erased"
                        THEN [sinceErase EXCEPT ![type] = "revalidated"]
                        ELSE sinceErase
       /\ UNCHANGED <<files, fileCount, is_enabled, intBits, pc, wr, saved, boots>>

(* ---------------- power loss ---------------- *)
\* Power is lost and the controller restarts: the EEFILE object is
\* constructed again (fileCount 0, is_enabled false, table zeroed), the
\* device keeps its bytes.  It can happen between any two EEPROM writes.
PowerLoss ==
    /\ boots < MaxBoots
    /\ boots' = boots + 1
    /\ saved' = [files |-> [i \in DOMAIN files |-> Lost(files[i])],
                 fileCount |-> fileCount, pc |-> pc]
    /\ files' = ZeroTable
    /\ fileCount' = 0
    /\ is_enabled' = FALSE
    /\ pc' = "idle"
    /\ wr' = NoWrite
    /\ sinceErase' = NoErase
    /\ UNCHANGED <<device, intBits>>

(* ---------------- specifications ---------------- *)
\* the store: every operation, on a few small records
Next ==
    \/ begin
    \/ enable
    \/ disable
    \/ \E t \in Types, s \in RegSizes : registerAuto(t, s)
    \/ \E t \in Types, d \in Payloads : writeBegin(t, d)
    \/ writeStep
    \/ \E t \in Types, n \in 0..MaxLen : read(t, n)
    \/ \E t \in Types : erase(t)
    \/ \E t \in Types, e \in BOOLEAN : setFileEnabled(t, e)
    \/ \E t \in Types : clearModifiedFlag(t)
    \/ \E t \in Types, v \in BOOLEAN : setFileValid(t, v)

Spec == Init /\ [][Next]_vars

\* start-up, use and power loss: the store is begun, records are
\* registered, written, marked valid or invalid and read, and power can
\* fail between any two EEPROM writes
NextCrash ==
    \/ begin
    \/ \E t \in Types, s \in CrashSizes : registerAuto(t, s)
    \/ \E t \in Types, d \in Payloads : writeBegin(t, d)
    \/ writeStep
    \/ \E t \in Types, n \in 0..MaxLen : read(t, n)
    \/ \E t \in Types, v \in BOOLEAN : setFileValid(t, v)
    \/ PowerLoss

SpecCrash == Init /\ [][NextCrash]_vars

\* registration alone, over the whole range of sizes and up to a full table,
\* on either build
InitReg ==
    /\ files = ZeroTable
    /\ fileCount = 0
    /\ is_enabled = FALSE
    /\ device = [a \in Addr |-> PAD]
    /\ intBits \in IntWidths
    /\ pc = "idle"
    /\ wr = NoWrite
    /\ sinceErase = NoErase
    /\ saved = NoSaved
    /\ boots = 0

NextReg ==
    \E t \in 0..fileCount, s \in WideSizes : registerAuto(t, s)

SpecReg == InitReg /\ [][NextReg]_vars

\* the example sketch: the store is begun, the three records are
\* registered in any order with the sketch's sizes, and the I2C address is
\* written, marked and read back
NextExample ==
    \/ begin
    \/ \E t \in ExampleTypes, s \in ExampleSizes : registerAuto(t, s)
    \/ writeBegin(IIC_START, <<I2C_ADDR>>)
    \/ writeStep
    \/ \E v \in BOOLEAN : setFileValid(IIC_START, v)
    \/ read(IIC_START, 1)

SpecExample == Init /\ [][NextExample]_vars

\* the store with a record of the largest 16-bit size beside small ones:
\* registration, validity marking, erase and read on both identifiers,
\* write on the small record (the oversized record is never written: its
\* fill loop would run past the device)
NextOver ==
    \/ begin
    \/ \E t \in Types : \E s \in OverSizes(t) : registerAuto(t, s)
    \/ \E d \in Payloads : writeBegin(KAL_MAN, d)
    \/ writeStep
    \/ \E t \in Types, n \in 0..MaxLen : read(t, n)
    \/ \E t \in Types : erase(t)
    \/ \E t \in Types, v \in BOOLEAN : setFileValid(t, v)

SpecOver == Init /\ [][NextOver]_vars

\* the store with an oversized record written and read: registration of
\* both identifiers, write of the second, read of both
NextEnd ==
    \/ begin
    \/ \E t \in Types : \E s \in EndSizes(t) : registerAuto(t, s)
    \/ \E d \in Payloads : writeBegin(KAL_MAN, d)
    \/ writeStep
    \/ \E t \in Types, n \in 0..MaxLen : read(t, n)

SpecEnd == Init /\ [][NextEnd]_vars

(* ---------------- vocabulary of the properties ---------------- *)
Registered(t) == findFileIndex(t) # -1
Rec(t) == files[findFileIndex(t)]
Marker(t) == EEPROM_read(device, Rec(t).startAddr)
\* the bytes of the first n payload cells of t's region
PayloadCells(t, n) == [i \in 1..n |-> EEPROM_read(device, Rec(t).startAddr + i)]

(* ---------------- C1 ---------------- *)
\* C1: in setValid(id,false); write(id,data,len); setValid(id,true), at
\* every device state between the byte writes of write the marker of id is
\* not 0x01: a write begun on a marker of 0x00 never shows a valid marker
\* before it has returned.
C1_FenceHoldsDuringWrite ==
    (pc = "write" /\ wr.fence) =>
        EEPROM_read(device, files[wr.idx].startAddr) # MARKER_VALID

(* ---------------- C2 ---------------- *)
\* C2: after any sequence of successful registrations the regions are
\* contiguous in registration order and pairwise disjoint: the first starts
\* at 0, each next one starts one past the previous endAddr, and
\* endAddr = startAddr + maxSize.
C2_ContiguousDisjoint ==
    \A k \in 0..(fileCount - 1) :
        /\ files[k].startAddr = (IF k = 0 THEN 0 ELSE files[k - 1].endAddr + 1)
        /\ files[k].endAddr = files[k].startAddr + files[k].maxSize
        /\ \A j \in 0..(k - 1) : files[j].endAddr < files[k].startAddr

(* ---------------- C3 ---------------- *)
\* C3: every record admitted into the table, for every 16-bit maxSize,
\* has endAddr < EEFILE_TOTAL_SIZE.
C3_EndInsideRegion ==
    \A k \in 0..(fileCount - 1) : files[k].endAddr < EEFILE_TOTAL_SIZE

(* ---------------- C4 ---------------- *)
\* the checks of write pass; the step on which write returns
C4_Step ==
    \A t \in Types, d \in Payloads :
        /\ (/\ pc = "idle" /\ is_enabled /\ Registered(t)
            /\ isFileEnabled(t) /\ Len(d) <= Rec(t).maxSize)
           => writeError(t, Len(d)) = ""
        /\ (/\ pc = "write" /\ pc' = "idle" /\ boots' = boots
            /\ files[wr.idx].type = t /\ wr.data = d)
           => (readError(t)' = "" /\ readBuffer(t, Len(d))' = d)

\* C4: on a registered, enabled record of an enabled store a write of
\* length <= maxSize passes its checks, and when it has returned a read of
\* the same length succeeds and yields exactly the bytes written.
C4_RoundTrip == [][C4_Step]_vars

\* a two-byte write has returned and reads back
C4_Witness ==
    \E t \in Types :
        /\ pc = "idle" /\ Registered(t) /\ Rec(t).dataLen = 2 /\ Rec(t).modified
        /\ readError(t) = "" /\ readBuffer(t, 2) = <<23, 66>>

(* ---------------- C5 ---------------- *)
\* records 0..k are registered again as they were before the power loss
SameLayoutUpTo(k) ==
    /\ k < saved.fileCount
    /\ \A j \in 0..k :
          /\ files[j].type = saved.files[j].type
          /\ files[j].maxSize = saved.files[j].maxSize
          /\ files[j].startAddr = saved.files[j].startAddr

\* C5: after a power loss and restart, with the same records registered
\* again in the same order, a record written and valid before the restart
\* reports valid, and read returns success with the bytes written before
\* the restart (the device is as the power loss left it: nothing was
\* written to the record since).
C5_ReadAfterRestart ==
    \A t \in Types :
        (/\ boots >= 1 /\ saved.pc = "idle" /\ pc = "idle" /\ is_enabled
         /\ Registered(t) /\ SameLayoutUpTo(findFileIndex(t))
         /\ saved.files[findFileIndex(t)].dataLen > 0
         /\ Rec(t).dataLen = 0 /\ ~Rec(t).modified
         /\ isFileValid(t))
        => LET n == saved.files[findFileIndex(t)].dataLen
           IN readError(t) = "" /\ readBuffer(t, n) = PayloadCells(t, n)

(* ---------------- C6 ---------------- *)
\* the three calls on a disabled record
C6_Step ==
    \A t \in Types :
        (Registered(t) /\ ~isFileEnabled(t) /\ pc = "idle") =>
            /\ \A d \in Payloads : writeError(t, Len(d)) # ""
            /\ readError(t) # ""
            /\ eraseError(t) # ""
            /\ ((\/ \E d \in Payloads : writeBegin(t, d)
                 \/ \E n \in 0..MaxLen : read(t, n)
                 \/ erase(t))
                => (device' = device /\ isFileValid(t)' = isFileValid(t)))

\* C6: while a record is disabled, write, read and erase on it each fail,
\* and none of them changes a device byte or the result of isValid.
C6_DisabledRecordUntouched == [][C6_Step]_vars

C8_Step ==
    \A t \in Types :
        (erase(t) /\ eraseError(t) = "") =>
            /\ ~isFileValid(t)'
            /\ getFileDataLen(t)' = 0
            /\ Marker(t)' # MARKER_VALID
            /\ readError(t)' # ""
            /\ isFileEnabled(t) => readError(t)' = "InvalidMarker"

\* C8: right after a successful erase(id), isValid(id) is false,
\* dataLength(id) is 0 and read(id) fails because the marker is not 0x01.
C8_EraseSemantics == [][C8_Step]_vars

\* erase has acted on a record that held two bytes: marker 0x00, length 0,
\* modified flag reset, payload cells as written
C8_Witness ==
    \E t \in Types :
        /\ Registered(t) /\ sinceErase[t] = "erased"
        /\ Marker(t) = MARKER_INVALID /\ getFileDataLen(t) = 0
        /\ ~isFileModified(t)
        /\ PayloadCells(t, 2) = <<23, 66>>

(* ---------------- C9 ---------------- *)
\* the effect of setFileValid on a registered record
C9_Step ==
    \A t \in Types, v \in BOOLEAN :
        (Registered(t) /\ setFileValid(t, v)) =>
            /\ isFileValid(t)' = v
            /\ files' = files /\ fileCount' = fileCount
            /\ device' = [device EXCEPT ![Rec(t).startAddr] = device'[Rec(t).startAddr]]

\* C9: setValid(id, v) followed by isValid(id) returns v whatever the
\* marker was, and setValid changes the marker byte alone: no descriptor
\* field and no other device byte.
C9_SetValidOnlyMarker == [][C9_Step]_vars

\* setValid(id, false) has acted on a written record: the marker is 0x00
\* while the recorded length and the modified flag are those of the write
C9_Witness ==
    \E t \in Types :
        /\ Registered(t) /\ Marker(t) = MARKER_INVALID
        /\ getFileDataLen(t) = 2 /\ isFileModified(t)
        /\ PayloadCells(t, 2) = <<23, 66>>

(* ---------------- C10 ---------------- *)
\* no identifier is in the table twice
C10_Unique ==
    \A i, j \in 0..(fileCount - 1) : files[i].type = files[j].type => i = j

\* no size makes the registration of a present identifier pass its checks
C10_Refused ==
    \A t \in WideTypes, s \in WideSizes : Registered(t) => ~registerOk(t, s)

\* a registration call either leaves the table as it is, or appends one
\* record of an identifier that was not in the table and leaves the
\* records before it as they are
C10_Step ==
    \/ (fileCount' = fileCount /\ files' = files)
    \/ /\ fileCount' = fileCount + 1
       /\ ~Registered(files'[fileCount].type)
       /\ \A k \in 0..(fileCount - 1) : files'[k] = files[k]

\* C10: registering an identifier that is already in the table fails and
\* leaves the record count and every descriptor unchanged, so every
\* identifier is in the table at most once.
C10_DuplicateRejected == [](C10_Unique /\ C10_Refused) /\ [][C10_Step]_vars

\* a table of several records with room for more: registering one of its
\* identifiers again is refused by the duplicate check, nothing else
C10_Witness ==
    /\ fileCount >= 3 /\ fileCount < EEFILE_MAX_FILES
    /\ Registered(IIC_START) /\ Registered(KAL_MAN)
    /\ calculateNextAddr + 2 <= EEFILE_TOTAL_SIZE
    /\ \E s \in WideSizes : ~registerOk(KAL_MAN, s)

(* ---------------- C11 ---------------- *)
\* C11: registerAuto never appends a record to a full table (10 records)
\* and never admits a record whose startAddr + maxSize + 1 exceeds
\* EEFILE_TOTAL_SIZE (512): the table never holds more than 10 records,
\* none of them has startAddr + maxSize + 1 > 512, and each record admitted
\* after a refusal starts one past the previous admitted record's endAddr.
C11_RefusedWithoutAllocation ==
    /\ fileCount <= EEFILE_MAX_FILES
    /\ \A k \in 0..(fileCount - 1) :
          /\ files[k].startAddr + files[k].maxSize + 1 <= EEFILE_TOTAL_SIZE
          /\ k > 0 => files[k].startAddr = files[k - 1].endAddr + 1

(* ---------------- C12 ---------------- *)
\* isValid is the marker byte of the device as it is now
C12_FromDevice ==
    \A t \in Types :
        Registered(t) => (isFileValid(t) <=> device[Rec(t).startAddr] = MARKER_VALID)

\* after a restart, once the record is registered again as before, isValid
\* is the byte at the address the record had before the restart
C12_AfterRestart ==
    \A t \in Types :
        (boots >= 1 /\ Registered(t) /\ SameLayoutUpTo(findFileIndex(t))) =>
            (isFileValid(t) <=>
                device[saved.files[findFileIndex(t)].startAddr] = MARKER_VALID)

\* neither the restart nor a registration writes a device byte
C12_Step ==
    (boots' # boots \/ fileCount' # fileCount) => device' = device

\* C12: isValid(id) of a registered record is always (device byte at
\* startAddr = 0x01) in the current device state; a power loss and the
\* registrations after it leave the device as it was, so after the records
\* are registered again in the same order isValid(id) is what the persisted
\* marker says, not anything kept in memory.
C12_ValidityFromMarker ==
    [](C12_FromDevice /\ C12_AfterRestart) /\ [][C12_Step]_vars

\* after a power loss the record is registered again: its descriptor is
\* fresh (length 0, not modified) and isValid is still true from the marker
\* the write before the power loss left on the device
C12_Witness ==
    \E t \in Types :
        /\ boots >= 1 /\ Registered(t) /\ SameLayoutUpTo(findFileIndex(t))
        /\ saved.files[findFileIndex(t)].dataLen = 2
        /\ Rec(t).dataLen = 0 /\ ~Rec(t).modified
        /\ isFileValid(t)

(* ---------------- C13 ---------------- *)
\* between the byte writes of a write that passed its checks: the marker is
\* 0x01, the record reports valid and a read of it passes its checks, and
\* the payload cells written so far are the first bytes of the new content
C13_DuringWrite ==
    pc = "write" =>
        LET t == files[wr.idx].type
        IN /\ Marker(t) = MARKER_VALID
           /\ isFileValid(t)
           /\ readError(t) = ""
           /\ \A j \in 0..(wr.i - 1) :
                 EEPROM_read(device, Rec(t).startAddr + 1 + j) =
                     (IF j < Len(wr.data) THEN wr.data[j + 1] ELSE PAD)

\* a power loss during the write leaves that marker on the device
C13_Step ==
    (pc = "write" /\ boots' # boots) =>
        device'[files[wr.idx].startAddr] = MARKER_VALID

\* C13: a write that passed its checks and is interrupted anywhere after
\* its first EEPROM write leaves the marker of the record at 0x01: the
\* record reports valid and a read passes the marker check, while the
\* payload cells hold the new bytes only up to the point of interruption.
C13_InterruptedWriteValid == []C13_DuringWrite /\ [][C13_Step]_vars

\* a two-byte write stopped after its first payload byte: marker 0x01, the
\* first cell is new, the second is not yet the new byte
C13_Witness ==
    /\ pc = "write" /\ wr.data = <<23, 66>> /\ wr.i = 1
    /\ Marker(files[wr.idx].type) = MARKER_VALID
    /\ PayloadCells(files[wr.idx].type, 1) = <<23>>
    /\ EEPROM_read(device, files[wr.idx].startAddr + 2) # 66

(* ---------------- C14 ---------------- *)
\* A(1), B(4) and C(16) were registered in that order on the empty table
C14_Registered ==
    /\ fileCount = 3
    /\ files[0].type = IIC_START /\ files[0].maxSize = 1
    /\ files[1].type = KAL_MAN /\ files[1].maxSize = 4
    /\ files[2].type = USER_SETTINGS /\ files[2].maxSize = 16

C14_Layout ==
    C14_Registered =>
        /\ files[0].startAddr = 0 /\ files[0].endAddr = 1
        /\ files[1].startAddr = 2 /\ files[1].endAddr = 6
        /\ files[2].startAddr = 7 /\ files[2].endAddr = 23

\* setValid(A, true) called after the write of 0x42 to A has returned
C14_Step ==
    (/\ C14_Registered /\ pc = "idle"
     /\ Rec(IIC_START).dataLen = 1 /\ Rec(IIC_START).modified
     /\ setFileValid(IIC_START, TRUE)) =>
        /\ isFileValid(IIC_START)'
        /\ readError(IIC_START)' = ""
        /\ readBuffer(IIC_START, 1)' = <<I2C_ADDR>>

C15_WriteFails(t, d) ==
    \/ ~is_enabled
    \/ ~Registered(t)
    \/ ~Rec(t).enabled
    \/ Len(d) > Rec(t).maxSize

C15_ReadFails(t) ==
    \/ ~is_enabled
    \/ ~Registered(t)
    \/ ~Rec(t).enabled
    \/ Marker(t) # MARKER_VALID

C15_EraseFails(t) ==
    \/ ~is_enabled
    \/ ~Registered(t)

\* each cause makes the call report failure
C15_Reported ==
    \A t \in Types :
        /\ \A d \in Payloads : C15_WriteFails(t, d) => writeError(t, Len(d)) # ""
        /\ C15_ReadFails(t) => readError(t) # ""
        /\ C15_EraseFails(t) => eraseError(t) # ""

\* a call that fails changes nothing
C15_Step ==
    \A t \in Types :
        /\ \A d \in Payloads :
              (pc = "idle" /\ C15_WriteFails(t, d) /\ writeBegin(t, d))
                  => (device' = device /\ files' = files /\ fileCount' = fileCount)
        /\ (pc = "idle" /\ C15_ReadFails(t) /\ \E n \in 0..MaxLen : read(t, n))
              => (device' = device /\ files' = files /\ fileCount' = fileCount)
        /\ (pc = "idle" /\ C15_EraseFails(t) /\ erase(t))
              => (device' = device /\ files' = files /\ fileCount' = fileCount)

\* C15: a write on a disabled store, an unknown identifier, a disabled
\* record or with length > maxSize, a read on a disabled store, an unknown
\* identifier, a disabled record or a marker other than 0x01, and an erase
\* that reports failure (disabled store, unknown identifier) each report
\* failure and leave every device byte and every descriptor as they were.
C15_FailureChangesNothing == []C15_Reported /\ [][C15_Step]_vars

\* states in which the calls fail with something to lose: a written record
\* that is now disabled (write and read fail on it), beside a record whose
\* marker is 0x00 (read fails) and which is too small for a two-byte write
C15_Witness ==
    \E t, u \in Types :
        /\ is_enabled /\ pc = "idle" /\ Registered(t) /\ Registered(u)
        /\ Rec(t).dataLen = 2 /\ Rec(t).modified /\ Marker(t) = MARKER_VALID
        /\ writeError(t, 1) = "RecordDisabled"
        /\ readError(t) = "RecordDisabled"
        /\ readError(u) = "InvalidMarker"
        /\ writeError(u, 2) = "PayloadTooLarge"

(* ---------------- C16 ---------------- *)
\* the step on which a write returns success
C16_Step ==
    (pc = "write" /\ pc' = "idle" /\ boots' = boots) =>
        LET idx == wr.idx
            start == files[idx].startAddr
            end == files[idx].endAddr
            length == Len(wr.data)
        IN /\ device'[start] = MARKER_VALID
           /\ \A i \in 0..(length - 1) : device'[start + 1 + i] = wr.data[i + 1]
           /\ \A a \in (start + 1 + length)..end : device'[a] = PAD
           /\ files'[idx].dataLen = length
           /\ files'[idx].modified

\* C16: when write(id, payload, length) returns success, the region of
\* the record is: 0x01 at startAddr, payload[i] at startAddr + 1 + i for
\* i < length, 0xFF at every address from startAddr + 1 + length to
\* endAddr; dataLen is length and modified is true.
C16_WriteImage == [][C16_Step]_vars

\* a one-byte write to a two-byte record has returned: marker, the byte,
\* one byte of padding up to endAddr, length 1, modified
C16_Witness ==
    \E t \in Types :
        /\ pc = "idle" /\ Registered(t) /\ Rec(t).maxSize = 2
        /\ Rec(t).endAddr = Rec(t).startAddr + 2
        /\ Marker(t) = MARKER_VALID
        /\ PayloadCells(t, 2) = <<66, PAD>>
        /\ Rec(t).dataLen = 1 /\ Rec(t).modified

(* ---------------- C17 ---------------- *)
\* the caller's buffer after a read that passed its checks
C17_Buffer ==
    \A t \in Types, n \in 0..MaxLen :
        readError(t) = "" =>
            LET b == readBuffer(t, n)
                copied == IF n < Rec(t).dataLen THEN n ELSE Rec(t).dataLen
            IN /\ Len(b) = n
               /\ \A i \in 1..copied : b[i] = device[Rec(t).startAddr + i]
               /\ \A i \in (copied + 1)..n : b[i] = BUF_INIT

\* a read changes neither the device nor the table
C17_Step ==
    \A t \in Types :
        (pc = "idle" /\ readError(t) = "" /\ \E n \in 0..MaxLen : read(t, n))
            => (device' = device /\ files' = files /\ fileCount' = fileCount)

\* C17: a read that passes its checks succeeds whatever the expected
\* length; it copies exactly min(expectedLength, dataLen) bytes, from
\* startAddr + 1 onward, to the start of the buffer, leaves the buffer from
\* the copied count on as it was (so no payload byte at offset >= dataLen
\* is delivered), and changes neither the device nor any descriptor.
C17_ReadCopiesMin == []C17_Buffer /\ [][C17_Step]_vars

\* a read of two bytes from a record holding one: one byte copied, the
\* second buffer position untouched; and a read of one byte from a record
\* of length 0 whose payload cell still holds an old byte: nothing copied
C17_Witness ==
    \E t, u \in Types :
        /\ Registered(t) /\ Registered(u)
        /\ readError(t) = "" /\ Rec(t).dataLen = 1
        /\ readBuffer(t, 2) = <<66, BUF_INIT>>
        /\ readError(u) = "" /\ Rec(u).dataLen = 0
        /\ PayloadCells(u, 1) = <<66>>
        /\ readBuffer(u, 1) = <<BUF_INIT>>

(* ---------------- C18 ---------------- *)
\* what an erase that passes its checks changes
C18_Step ==
    \A t \in Types :
        (pc = "idle" /\ is_enabled /\ Registered(t) /\ erase(t)) =>
            LET idx == findFileIndex(t)
            IN /\ device' = [device EXCEPT ![files[idx].startAddr] = MARKER_INVALID]
               /\ files'[idx].dataLen = 0
               /\ ~files'[idx].modified
               /\ files'[idx].enabled = files[idx].enabled
               /\ files'[idx].type = files[idx].type
               /\ files'[idx].maxSize = files[idx].maxSize
               /\ files'[idx].startAddr = files[idx].startAddr
               /\ files'[idx].endAddr = files[idx].endAddr
               /\ \A k \in 0..(fileCount - 1) : k # idx => files'[k] = files[k]
               /\ fileCount' = fileCount

\* C18: a successful erase(id) writes one device byte, the marker at
\* startAddr, which becomes 0x00; every payload byte of the record and
\* every byte of the other records stay as they were; in the descriptor
\* dataLen becomes 0 and modified false, enabled and the addresses stay,
\* and the other descriptors stay.
C18_EraseFrame == [][C18_Step]_vars

\* an enabled record written with two bytes was erased beside another
\* written record: its marker is 0x00 over the payload as written, the
\* other record still has its marker, its byte and its length
C18_Witness ==
    \E t, u \in Types :
        /\ t # u /\ Registered(t) /\ Registered(u)
        /\ sinceErase[t] = "erased" /\ Rec(t).enabled
        /\ Marker(t) = MARKER_INVALID /\ PayloadCells(t, 2) = <<23, 66>>
        /\ Rec(t).dataLen = 0 /\ ~Rec(t).modified
        /\ Marker(u) = MARKER_VALID /\ PayloadCells(u, 1) = <<66>>
        /\ Rec(u).dataLen = 1 /\ Rec(u).modified

(* ---------------- C19 ---------------- *)
\* no call removes a record or changes the layout of a registered one
C19_Step ==
    /\ fileCount' >= fileCount
    /\ \A k \in 0..(fileCount - 1) :
          /\ files'[k].type = files[k].type
          /\ files'[k].maxSize = files[k].maxSize
          /\ files'[k].startAddr = files[k].startAddr
          /\ files'[k].endAddr = files[k].endAddr

\* C19: once a record is registered, its type, maxSize, startAddr and
\* endAddr do not change under any later registerAuto, write, read, erase,
\* setFileValid, setFileEnabled, enable, disable or clearModifiedFlag, and
\* fileCount never decreases.
C19_LayoutImmutable == [][C19_Step]_vars

\* two records with the layout of their registration after a write, an
\* erase, a setFileEnabled(false) and a disable have acted
C19_Witness ==
    /\ fileCount = 2 /\ ~is_enabled /\ pc = "idle"
    /\ files[0].maxSize = 1 /\ files[0].startAddr = 0 /\ files[0].endAddr = 1
    /\ files[1].maxSize = 2 /\ files[1].startAddr = 2 /\ files[1].endAddr = 4
    /\ sinceErase[files[0].type] = "erased" /\ ~files[0].enabled
    /\ files[1].dataLen = 2 /\ files[1].modified

(* ---------------- C20 ---------------- *)
\* the step on which a write to t returns success
C20_WriteReturns(t) ==
    pc = "write" /\ pc' = "idle" /\ files[wr.idx].type = t

\* how the modified flag of t moves in one step
C20_Step ==
    \A t \in Types :
        /\ (~Registered(t) /\ Registered(t)') => ~isFileModified(t)'
        /\ Registered(t) =>
              /\ C20_WriteReturns(t) => isFileModified(t)'
              /\ (~isFileModified(t) /\ isFileModified(t)') => C20_WriteReturns(t)
              /\ (isFileModified(t) /\ ~isFileModified(t)') =>
                    (clearModifiedFlag(t) \/ (eraseError(t) = "" /\ erase(t)))
              /\ (pc = "idle" /\
                  (\/ \E d \in Payloads : writeError(t, Len(d)) # "" /\ writeBegin(t, d)
                   \/ \E n \in 0..MaxLen : read(t, n)
                   \/ \E v \in BOOLEAN : setFileValid(t, v)
                   \/ \E e \in BOOLEAN : setFileEnabled(t, e)))
                 => isFileModified(t)' = isFileModified(t)

\* C20: isFileModified(id) is false once id is registered, becomes true
\* when a write to id returns success and only then, is left as it was by
\* failed writes, reads, setFileValid and setFileEnabled, and goes from
\* true to false only by clearModifiedFlag(id) or a successful erase(id).
C20_ModifiedFlag == [][C20_Step]_vars

\* clearModifiedFlag has acted on a written record (two bytes, marker
\* 0x01, flag false) beside a written record whose flag is still true
C20_Witness ==
    \E t, u \in Types :
        /\ Registered(t) /\ Registered(u)
        /\ Rec(t).dataLen = 2 /\ Marker(t) = MARKER_VALID /\ ~isFileModified(t)
        /\ Rec(u).dataLen = 1 /\ isFileModified(u)

(* ---------------- C21 ---------------- *)
\* the step is a byte write of write(x), an erase(x) or a setFileValid(x)
C21_ActsOn(x) ==
    \/ pc = "idle" /\ \E d \in Payloads : writeError(x, Len(d)) = "" /\ writeBegin(x, d)
    \/ pc = "write" /\ files[wr.idx].type = x /\ writeStep
    \/ pc = "idle" /\ eraseError(x) = "" /\ erase(x)
    \/ pc = "idle" /\ \E v \in BOOLEAN : setFileValid(x, v)

\* last device address of the region of x
C21_LastAddr(x) ==
    IF Rec(x).endAddr < EEFILE_TOTAL_SIZE THEN Rec(x).endAddr ELSE EEFILE_TOTAL_SIZE - 1

C21_Step ==
    \A x \in Types, y \in Types :
        (x # y /\ Registered(x) /\ Registered(y) /\ C21_ActsOn(x)) =>
            /\ \E a \in Rec(x).startAddr..C21_LastAddr(x) :
                  device' = [device EXCEPT ![a] = device'[a]]
            /\ files'[findFileIndex(y)] = files[findFileIndex(y)]
            /\ isFileValid(y)' = isFileValid(y)
            /\ getFileDataLen(y)' = getFileDataLen(y)
            /\ \A n \in 0..MaxLen : readBuffer(y, n)' = readBuffer(y, n)

\* C21: write, erase and setValid on a record X change device bytes only
\* inside [startAddr(X), endAddr(X)] and no descriptor but X's, so for
\* every other registered record Y the results of isValid(Y) and
\* dataLength(Y) and the bytes read(Y, ...) returns are the same before and
\* after.
C21_Isolation == [][C21_Step]_vars

(* ---------------- C22 ---------------- *)
\* the step is a successful write(t) storing its marker, or setValid(t, true)
C22_MarksValid(t) ==
    /\ pc = "idle" /\ Registered(t)
    /\ \/ \E d \in Payloads : writeError(t, Len(d)) = "" /\ writeBegin(t, d)
       \/ setFileValid(t, TRUE)

\* the step is a successful erase(t) or setValid(t, false)
C22_MarksInvalid(t) ==
    /\ pc = "idle" /\ Registered(t)
    /\ \/ eraseError(t) = "" /\ erase(t)
       \/ setFileValid(t, FALSE)

\* isValid(t) follows the most recent marker-affecting operation on t: a
\* record just registered is invalid, the operations that mark set the
\* result, and every other step leaves it as it was
C22_Step ==
    \A t \in Types :
        /\ (~Registered(t) /\ Registered(t)') => ~isFileValid(t)'
        /\ C22_MarksValid(t) => isFileValid(t)'
        /\ C22_MarksInvalid(t) => ~isFileValid(t)'
        /\ (Registered(t) /\ ~C22_MarksValid(t) /\ ~C22_MarksInvalid(t))
              => isFileValid(t)' = isFileValid(t)

\* C22: from a device without a byte 0x01 and an empty table, without a
\* restart, isValid(id) is true exactly when the most recent of the
\* successful write(id), setValid(id, v) and successful erase(id) was a
\* successful write or setValid(id, true); a registered record that has
\* had none of them reports invalid.
C22_ValidIffLastMarkedValid == [][C22_Step]_vars

(* ---------------- C23 ---------------- *)
\* C23: every registered record has dataLen <= maxSize, so a read that
\* passes its checks copies from no device address above the endAddr of
\* the record (the last address it copies from is startAddr + the number
\* of bytes copied).
C23_ReadInsideRegion ==
    \A t \in Types :
        Registered(t) =>
            /\ Rec(t).dataLen <= Rec(t).maxSize
            /\ \A n \in 0..MaxLen :
                  (readError(t) = "" /\ readLen(t, n) > 0)
                      => Rec(t).startAddr + readLen(t, n) <= Rec(t).endAddr

====
